---- MODULE Spec2Model ----
(***************************************************************************)
(* Bolao Mega-Sena (atcasanova/megasena): the draw poller, the manual draw *)
(* entry, the results notification and the hit matcher, modelled from the  *)
(* latest revision of the server (src/unnamed/part_001).                   *)
(*                                                                         *)
(* A SQLite table is the set of its rows, or a function from the key of the *)
(* rows that exist to the rest of the row.                                 *)
(* Every async handler is a run: a position (pc) and its local variables;  *)
(* a step of a run is the code between two awaits, so the steps of         *)
(* different runs interleave exactly where the event loop may switch.      *)
(***************************************************************************)
EXTENDS Integers, Sequences, FiniteSets, TLC

VARIABLES
  boloes,       \* table boloes: pool id -> row, for the rows that exist
  issued,       \* pool ids generateBolaoId has already returned
  draws,        \* table draws: the set of its rows
  subscribers,  \* table bolao_subscribers: <<pool id, email>> -> row
  now,          \* the wall clock read by new Date()
  runs,         \* the poll ticks and manual entries in progress
  deleting,     \* the admin draw deletion in progress, or NULL
  sent,         \* history: results emails delivered per subscriber and draw
  nextToken,    \* history: how many verification tokens were generated
  confirming,   \* the confirm request in progress, or the last one answered
  ops,          \* history: how many requests and timer ticks were served
  fn            \* the pure-function harness (unused by Spec)

vars == <<boloes, issued, draws, subscribers, now, runs, deleting, sent,
          nextToken, confirming, ops, fn>>


----------------------------------------------------------------------------
(* Bounds of the model                                                     *)

PoolSeq == <<"p1", "p2">>
PoolIds == {PoolSeq[i] : i \in 1..Len(PoolSeq)}
Emails == {"a@x", "b@x"}
\* what a subscribe form may carry for these addresses
RawEmails == {"a@x", "A@x ", "b@x", " b@X"}
MaxDraw == 2
MaxRuns == 2
MaxClock == 1
MaxTokens == 3
MaxOps == 5

DrawNums == 1..MaxDraw
Slots == 1..MaxRuns
SubIds == PoolIds \X Emails

----------------------------------------------------------------------------
(* Strings of digits: a string is the sequence of its characters           *)

RECURSIVE Str(_)
Str(n) == IF n < 10 THEN <<n>> ELSE Str(n \div 10) \o <<n % 10>>

PadStart2(s) ==
  IF Len(s) >= 2 THEN s
  ELSE IF Len(s) = 1 THEN <<0>> \o s
  ELSE <<0, 0>>

RECURSIVE StrLess(_, _)
StrLess(a, b) ==
  IF a = <<>> THEN b # <<>>
  ELSE IF b = <<>> THEN FALSE
  ELSE IF Head(a) # Head(b) THEN Head(a) < Head(b)
  ELSE StrLess(Tail(a), Tail(b))

\* Array.prototype.sort() without a comparator: ascending by code units,
\* equal strings in the order they had; element i goes to place 1 + the
\* number of elements that come before it
SortStrings(s) ==
  LET before(i) == {j \in 1..Len(s) :
                      StrLess(s[j], s[i]) \/ (s[j] = s[i] /\ j < i)}
  IN  [k \in 1..Len(s) |->
         s[CHOOSE i \in 1..Len(s) : Cardinality(before(i)) = k - 1]]

Range(s) == {s[i] : i \in 1..Len(s)}

----------------------------------------------------------------------------
(* Rows and pure helpers                                                   *)

MaxConcurso == 9999

\* SQL NULL / undefined of an integer column or field
NULL == -1
\* undefined of a date string
NoDate == <<"none", 0>>
\* the result of a parser that returned { error }
ParseError == <<>>

\* JSON.stringify / JSON.parse of an array of strings: the stored text
JSONstringify(arr) == <<"json", arr>>
JSONparse(text) == text[2]

\* new Date().toISOString() and toLocaleDateString("pt-BR") of the clock
IsoOf(t) == <<"iso", t>>
DateOf(t) == <<"date", t>>
ApiDate == <<"apuracao", 0>>

\* parseDrawNumber accepts: Number.isInteger(n) && 1 <= n <= 9999
parseDrawNumber(input) == input >= 1 /\ input <= MaxConcurso

RECURSIVE Dedup(_)
\* [...new Set(tokens)]: first occurrences, in order
Dedup(s) ==
  IF s = <<>> THEN <<>>
  ELSE LET init == Dedup(SubSeq(s, 1, Len(s) - 1))
           last == s[Len(s)]
       IN  IF last \in Range(init) THEN init ELSE Append(init, last)

RECURSIVE InsertNum(_, _)
InsertNum(x, s) ==
  IF s = <<>> THEN <<x>>
  ELSE IF x < Head(s) THEN <<x>> \o s
  ELSE <<Head(s)>> \o InsertNum(x, Tail(s))

RECURSIVE SortNums(_)
SortNums(s) == IF s = <<>> THEN <<>> ELSE InsertNum(Head(s), SortNums(Tail(s)))

\* mutant: the sort left out
parseNumbersUnsorted(tokens) ==
  LET unique == Dedup(tokens)
  IN  IF Len(unique) < 6 \/ Len(unique) > 15 THEN ParseError
      ELSE IF \E i \in 1..Len(unique) : unique[i] < 1 \/ unique[i] > 60
           THEN ParseError
      ELSE [i \in 1..Len(unique) |-> PadStart2(Str(unique[i]))]

\* parseNumbers from the numeric tokens of the input text
parseNumbers(tokens) ==
  LET unique == Dedup(tokens)
  IN  IF Len(unique) < 6 \/ Len(unique) > 15 THEN ParseError
      ELSE IF \E i \in 1..Len(unique) : unique[i] < 1 \/ unique[i] > 60
           THEN ParseError
      ELSE LET sorted == SortNums(unique)
           IN  [i \in 1..Len(sorted) |-> PadStart2(Str(sorted[i]))]

RECURSIVE NumberOf(_)
\* Number(value) of a string of digits
NumberOf(str) ==
  IF str = <<>> THEN 0
  ELSE 10 * NumberOf(SubSeq(str, 1, Len(str) - 1)) + str[Len(str)]

\* parseNumbers(line) of a line given as its strings of digits, the pieces
\* between separators: .map((value) => Number(value)) and the rest
parseLine(line) == parseNumbers([i \in 1..Len(line) |-> NumberOf(line[i])])

\* parseGamesInput: lines are the non-empty lines of the input; the games,
\* or ParseError when there is no line or some line is not a game
parseGamesInput(lines) ==
  IF lines = <<>> THEN ParseError
  ELSE IF \E i \in 1..Len(lines) : parseLine(lines[i]) = ParseError THEN ParseError
  ELSE [i \in 1..Len(lines) |-> parseLine(lines[i])]

\* the games table after insertGames(bolaoId, games) has committed
insertGames(table, bolaoId, games) ==
  table \o [i \in 1..Len(games) |->
             [id |-> Len(table) + i, bolao_id |-> bolaoId,
              numbers |-> JSONstringify(games[i])]]

parseResultNumbers(tokens) ==
  LET numbers == parseNumbers(tokens)
  IN  IF numbers = ParseError THEN ParseError
      ELSE IF Len(numbers) # 6 THEN ParseError
      ELSE numbers

\* fetchLatestDraw rejects: fetch or res.json() failed, or the guard threw
fetchThrows(resp) ==
  \/ resp.kind = "error"
  \/ resp.kind = "null"
  \/ resp.numero = 0
  \/ ~resp.hasLista

\* mutant: the number before the one the API reports
fetchLatestDrawPrevious(resp) ==
  [number   |-> resp.numero - 1,
   numbers  |-> SortStrings([i \in 1..Len(resp.listaDezenas) |->
                               PadStart2(resp.listaDezenas[i])]),
   drawDate |-> resp.dataApuracao]

\* the draw fetchLatestDraw resolves to
fetchLatestDraw(resp) ==
  [number   |-> resp.numero,
   numbers  |-> SortStrings([i \in 1..Len(resp.listaDezenas) |->
                               PadStart2(resp.listaDezenas[i])]),
   drawDate |-> resp.dataApuracao]

\* mutant: draw_date = excluded.updated_at in the ON CONFLICT clause
storeDrawDateMix(table, draw, t) ==
  LET row == [number     |-> draw.number,
              numbers    |-> JSONstringify(draw.numbers),
              draw_date  |-> draw.drawDate,
              updated_at |-> IsoOf(t)]
  IN  IF \E x \in table : x.number = draw.number
      THEN {IF x.number = draw.number THEN [row EXCEPT !.draw_date = IsoOf(t)]
            ELSE x : x \in table}
      ELSE table \cup {row}

\* mutant: INSERT OR IGNORE in place of ON CONFLICT .. DO UPDATE
storeDrawIgnore(table, draw, t) ==
  LET row == [number     |-> draw.number,
              numbers    |-> JSONstringify(draw.numbers),
              draw_date  |-> draw.drawDate,
              updated_at |-> IsoOf(t)]
  IN  IF \E x \in table : x.number = draw.number
      THEN table
      ELSE table \cup {row}

\* the draws table after storeDraw(draw) at clock t (INSERT .. ON CONFLICT)
storeDraw(table, draw, t) ==
  LET row == [number     |-> draw.number,
              numbers    |-> JSONstringify(draw.numbers),
              draw_date  |-> draw.drawDate,
              updated_at |-> IsoOf(t)]
  IN  IF \E x \in table : x.number = draw.number
      THEN {IF x.number = draw.number THEN row ELSE x : x \in table}
      ELSE table \cup {row}

\* the numbers of the draws that are stored
StoredNumbers == {x.number : x \in draws}

\* the statement of storeDraw violates the NOT NULL constraint of draw_date
storeDrawRejected(draw) == draw.drawDate = NoDate

\* mutant: the LEFT JOIN on draws forgotten, every pool counts as pending
hasPendingBoloesAnyPool == DOMAIN boloes # {}

hasPendingBoloes ==
  \E p \in DOMAIN boloes : boloes[p].draw_number \notin StoredNumbers

\* mutant: the WHERE clause forgotten
selectBoloesAll(n) == DOMAIN boloes

\* SELECT id .. FROM boloes WHERE draw_number = ?
selectBoloes(n) == {p \in DOMAIN boloes : boloes[p].draw_number = n}

\* x < n in SQL: not true when x IS NULL
SqlLess(x, n) == x # NULL /\ x < n

\* mutant: last_notified_draw <= ? in place of <
selectSubscribersLte(p, n) ==
  {[id |-> s, last_notified_draw |-> subscribers[s].last_notified_draw] :
     s \in {x \in DOMAIN subscribers :
              /\ x[1] = p
              /\ subscribers[x].status = "verified"
              /\ \/ subscribers[x].last_notified_draw = NULL
                 \/ SqlLess(subscribers[x].last_notified_draw, n + 1)}}

\* SELECT id, email, last_notified_draw FROM bolao_subscribers WHERE ..
selectSubscribers(p, n) ==
  {[id |-> s, last_notified_draw |-> subscribers[s].last_notified_draw] :
     s \in {x \in DOMAIN subscribers :
              /\ x[1] = p
              /\ subscribers[x].status = "verified"
              /\ \/ subscribers[x].last_notified_draw = NULL
                 \/ SqlLess(subscribers[x].last_notified_draw, n)}}

----------------------------------------------------------------------------
(* The hit matcher                                                         *)

RECURSIVE FilterCount(_, _)
\* numbers.filter((num) => set.has(num)).length
FilterCount(numbers, set) ==
  IF numbers = <<>> THEN 0
  ELSE (IF Head(numbers) \in set THEN 1 ELSE 0) + FilterCount(Tail(numbers), set)

\* mutant: the test of the filter negated
getGameStatsMisses(games, drawNumbersSet) ==
  [i \in 1..Len(games) |->
     LET numbers == JSONparse(games[i].numbers)
     IN  [game     |-> games[i],
          numbers  |-> numbers,
          hitCount |-> IF drawNumbersSet.has
                       THEN Len(numbers) - FilterCount(numbers, drawNumbersSet.set)
                       ELSE 0,
          size     |-> Len(numbers)]]

\* getGameStats(games, drawNumbersSet); drawNumbersSet is a Set or null
getGameStats(games, drawNumbersSet) ==
  [i \in 1..Len(games) |->
     LET numbers == JSONparse(games[i].numbers)
     IN  [game     |-> games[i],
          numbers  |-> numbers,
          hitCount |-> IF drawNumbersSet.has
                       THEN FilterCount(numbers, drawNumbersSet.set)
                       ELSE 0,
          size     |-> Len(numbers)]]

\* mutant: the size comparison left out
compareStatsNoSize(a, b, hasDraw) ==
  IF hasDraw /\ b.hitCount # a.hitCount THEN b.hitCount - a.hitCount
  ELSE b.game.id - a.game.id

\* the comparator of sortGameStats: negative when a goes before b
compareStats(a, b, hasDraw) ==
  IF hasDraw /\ b.hitCount # a.hitCount THEN b.hitCount - a.hitCount
  ELSE IF b.size # a.size THEN b.size - a.size
  ELSE b.game.id - a.game.id

RECURSIVE InsertStat(_, _, _)
InsertStat(x, s, hasDraw) ==
  IF s = <<>> THEN <<x>>
  ELSE IF compareStats(x, Head(s), hasDraw) < 0 THEN <<x>> \o s
  ELSE <<Head(s)>> \o InsertStat(x, Tail(s), hasDraw)

RECURSIVE sortGameStats(_, _)
\* sortGameStats(stats, hasDraw): [...stats].sort(comparator), a stable sort
sortGameStats(stats, hasDraw) ==
  IF stats = <<>> THEN <<>>
  ELSE InsertStat(stats[Len(stats)],
                  sortGameStats(SubSeq(stats, 1, Len(stats) - 1), hasDraw),
                  hasDraw)

MathMax(a, b) == IF a >= b THEN a ELSE b

\* mutant: Math.max forgotten in the reducer
getMaxHitsLast(stats) == IF stats = <<>> THEN 0 ELSE stats[Len(stats)].hitCount

RECURSIVE ReduceMax(_, _)
\* stats.reduce((max, game) => Math.max(max, game.hitCount), max)
ReduceMax(stats, max) ==
  IF stats = <<>> THEN max
  ELSE ReduceMax(Tail(stats), MathMax(max, Head(stats).hitCount))

\* getMaxHits(stats)
getMaxHits(stats) == ReduceMax(stats, 0)

\* getHitAchievement(hitCount): the label of its result, or "null"
getHitAchievement(hitCount) ==
  IF hitCount = 6 THEN "sena"
  ELSE IF hitCount = 5 THEN "quina"
  ELSE IF hitCount = 4 THEN "quadra"
  ELSE "null"

----------------------------------------------------------------------------
(* Inputs                                                                  *)

\* listaDezenas of a well-formed response, as the API sends it
ApiGood == <<Str(23), Str(4), Str(42), Str(8), Str(15), Str(16)>>
\* listaDezenas of a malformed response: an array, but not six dezenas
ApiShort == <<Str(7), Str(3)>>

ApiResponses ==
  {[kind |-> "error"], [kind |-> "null"]} \cup
  [kind : {"json"}, numero : 0..MaxDraw, hasLista : BOOLEAN,
   listaDezenas : {ApiGood, ApiShort}, dataApuracao : {ApiDate, NoDate}]

\* the numeric tokens of the numbers field of the manual entry form
ManualInputs ==
  {<<1, 2, 3, 4, 5, 60, 60>>,           \* six distinct dezenas, one repeated
   <<1, 2, 3, 4, 5, 6, 7>>,             \* seven dezenas
   <<1, 2, 3, 4, 5, 61>>}               \* out of range

----------------------------------------------------------------------------
(* State                                                                   *)

NoDrawLocal == [number |-> 0, numbers |-> <<>>, drawDate |-> NoDate]
NoBolao == ""
NoSub == <<>>

IdleRun ==
  [kind |-> "none", pc |-> "idle", draw |-> NoDrawLocal, boloes |-> {},
   bolao |-> NoBolao, subs |-> {}, sub |-> NoSub, failed |-> {},
   result |-> "none"]

\* the handler returns: what it logged or answered
Done(kind, result) == [IdleRun EXCEPT !.kind = kind, !.pc = "done", !.result = result]

\* no confirm request yet
NoConfirm ==
  [pc |-> "none", bolao |-> NoBolao, id |-> NoSub, token |-> NULL,
   answer |-> "none"]

NoFn == [pc |-> "off"]

Init ==
  /\ boloes = <<>>
  /\ issued = {}
  /\ draws = {}
  /\ subscribers = <<>>
  /\ now = 0
  /\ runs = [r \in Slots |-> IdleRun]
  /\ deleting = NULL
  /\ sent = [s \in SubIds |-> [n \in DrawNums |-> 0]]
  /\ nextToken = 1
  /\ confirming = NoConfirm
  /\ ops = 0
  /\ fn = NoFn

\* a run starts in the first free slot
FreeSlot(r) ==
  /\ runs[r].pc = "idle"
  /\ \A q \in Slots : q < r => runs[q].pc # "idle"

\* where the loops of notifySubscribersForDraw go next
Continue(run) ==
  IF run.subs # {} THEN [run EXCEPT !.pc = "send"]
  ELSE IF run.boloes # {} THEN [run EXCEPT !.pc = "selSubs"]
  ELSE [run EXCEPT !.pc = "done", !.result = "notified"]

Bump(k) == IF k < 2 THEN k + 1 ELSE 2

----------------------------------------------------------------------------
(* The poller: startPolling / poll                                         *)

\* one more request or timer tick is served
Serve == ops < MaxOps /\ ops' = ops + 1

\* the timer fires: const pending = await hasPendingBoloes();
\*                   if (!pending) return;
PollTick(r) ==
  /\ FreeSlot(r)
  /\ runs' = [runs EXCEPT ![r] =
                IF hasPendingBoloes
                THEN [IdleRun EXCEPT !.kind = "poll", !.pc = "fetch"]
                ELSE Done("poll", "skipped")]
  /\ UNCHANGED <<boloes, issued, draws, subscribers, now, deleting, sent,
                 nextToken, confirming, fn>>

PollCheck(r) == Serve /\ PollTick(r)

\* mutant: notifySubscribersForDraw(draw) called before storeDraw(draw)
FetchThenNotify(r, resp) ==
  /\ runs[r].pc = "fetch"
  /\ runs' = [runs EXCEPT ![r] =
                IF fetchThrows(resp) THEN Done("poll", "fetchFailed")
                ELSE [@ EXCEPT !.pc = "selBoloes", !.draw = fetchLatestDraw(resp)]]
  /\ UNCHANGED <<boloes, issued, draws, subscribers, now, deleting, sent,
                 nextToken, confirming, ops, fn>>

\* const draw = await fetchLatestDraw();
\* resp is what fetch(API_URL) and res.json() produce
Fetch(r, resp) ==
  /\ runs[r].pc = "fetch"
  /\ runs' = [runs EXCEPT ![r] =
                IF fetchThrows(resp) THEN Done("poll", "fetchFailed")
                ELSE [@ EXCEPT !.pc = "store", !.draw = fetchLatestDraw(resp)]]
  /\ UNCHANGED <<boloes, issued, draws, subscribers, now, deleting, sent,
                 nextToken, confirming, ops, fn>>

PollFetch(r) == \E resp \in ApiResponses : Fetch(r, resp)

\* await storeDraw(draw) of a poll tick
\* mutant: the error of storeDraw swallowed, the tick goes on to notify
StoreSwallow(r, dbOk) ==
  /\ runs[r].pc = "store"
  /\ draws' = IF dbOk /\ ~storeDrawRejected(runs[r].draw)
              THEN storeDraw(draws, runs[r].draw, now)
              ELSE draws
  /\ runs' = [runs EXCEPT ![r].pc = "selBoloes"]
  /\ UNCHANGED <<boloes, issued, subscribers, now, deleting, sent,
                 nextToken, confirming, ops, fn>>

\* dbOk: the statement ran; the catch of poll logs a failure and returns
Store(r, dbOk) ==
  /\ runs[r].pc = "store"
  /\ IF dbOk /\ ~storeDrawRejected(runs[r].draw)
     THEN /\ draws' = storeDraw(draws, runs[r].draw, now)
          /\ runs' = [runs EXCEPT ![r].pc = "selBoloes"]
     ELSE /\ draws' = draws
          /\ runs' = [runs EXCEPT ![r] =
                        [Done("poll", "storeFailed") EXCEPT !.draw = runs[r].draw]]
  /\ UNCHANGED <<boloes, issued, subscribers, now, deleting, sent,
                 nextToken, confirming, ops, fn>>

StoreDraw(r) == \E dbOk \in BOOLEAN : Store(r, dbOk)

----------------------------------------------------------------------------
(* notifySubscribersForDraw                                                *)

\* const boloes = await dbAll(..); if (!boloes.length) return;
NotifySelectBoloes(r) ==
  /\ runs[r].pc = "selBoloes"
  /\ LET bs == selectBoloes(runs[r].draw.number)
     IN  runs' = [runs EXCEPT ![r] =
                    IF bs = {} THEN [@ EXCEPT !.pc = "done", !.result = "notified"]
                    ELSE [@ EXCEPT !.pc = "selSubs", !.boloes = bs]]
  /\ UNCHANGED <<boloes, issued, draws, subscribers, now, deleting, sent,
                 nextToken, confirming, ops, fn>>

\* for (const bolao of boloes): the subscribers query (and the games query)
NotifySelectSubscribers(r) ==
  /\ runs[r].pc = "selSubs"
  /\ \E b \in runs[r].boloes :
       LET ss == selectSubscribers(b, runs[r].draw.number)
           run == [runs[r] EXCEPT !.boloes = @ \ {b}, !.bolao = b, !.subs = ss,
                                  !.sub = NoSub]
       IN  runs' = [runs EXCEPT ![r] = Continue(run)]
  /\ UNCHANGED <<boloes, issued, draws, subscribers, now, deleting, sent,
                 nextToken, confirming, ops, fn>>

\* for (const subscriber of subscribers): await mailTransport.sendMail(..)
\* mutant: the try/catch around the whole loop, a failed send ends it
SendAbort(r, s, mailOk) ==
  /\ runs[r].pc = "send"
  /\ s \in runs[r].subs
  /\ LET run == [runs[r] EXCEPT !.subs = @ \ {s}]
     IN  IF mailOk
         THEN /\ sent' = [sent EXCEPT ![s.id][run.draw.number] = Bump(@)]
              /\ runs' = [runs EXCEPT ![r] =
                            [run EXCEPT !.pc = "mark", !.sub = s.id]]
         ELSE /\ sent' = sent
              /\ runs' = [runs EXCEPT ![r] =
                            [run EXCEPT !.failed = @ \cup {s.id}, !.pc = "done",
                                        !.result = "notified"]]
  /\ UNCHANGED <<boloes, issued, draws, subscribers, now, deleting,
                 nextToken, confirming, ops, fn>>

\* mailOk: sendMail resolved; the inner catch logs a failure and goes on
Send(r, s, mailOk) ==
  /\ runs[r].pc = "send"
  /\ s \in runs[r].subs
  /\ LET run == [runs[r] EXCEPT !.subs = @ \ {s}]
     IN  IF mailOk
         THEN /\ sent' = [sent EXCEPT ![s.id][run.draw.number] = Bump(@)]
              /\ runs' = [runs EXCEPT ![r] =
                            [run EXCEPT !.pc = "mark", !.sub = s.id]]
         ELSE /\ sent' = sent
              /\ runs' = [runs EXCEPT ![r] =
                            Continue([run EXCEPT !.failed = @ \cup {s.id}])]
  /\ UNCHANGED <<boloes, issued, draws, subscribers, now, deleting,
                 nextToken, confirming, ops, fn>>

NotifySend(r) ==
  \E s \in runs[r].subs, mailOk \in BOOLEAN : Send(r, s, mailOk)

\* await dbRun("UPDATE bolao_subscribers SET last_notified_draw = ? WHERE id = ?")
NotifyMark(r) ==
  /\ runs[r].pc = "mark"
  /\ subscribers' = [subscribers EXCEPT
                       ![runs[r].sub].last_notified_draw = runs[r].draw.number]
  /\ runs' = [runs EXCEPT ![r] = Continue(runs[r])]
  /\ UNCHANGED <<boloes, issued, draws, now, deleting, sent,
                 nextToken, confirming, ops, fn>>

----------------------------------------------------------------------------
(* HTTP handlers                                                           *)

\* POST /admin/draws/manual: the parsers and await storeDraw(..)
ManualStart(r) ==
  /\ FreeSlot(r)
  /\ Serve
  /\ \E n \in 0..MaxDraw, tokens \in ManualInputs, dbOk \in BOOLEAN :
       LET numbers == parseResultNumbers(tokens)
           draw == [number |-> n, numbers |-> numbers, drawDate |-> DateOf(now)]
       IN  /\ parseDrawNumber(n)
           /\ numbers # ParseError
           /\ IF dbOk
              THEN /\ draws' = storeDraw(draws, draw, now)
                   /\ runs' = [runs EXCEPT ![r] =
                                 [IdleRun EXCEPT !.kind = "manual",
                                                 !.pc = "selBoloes", !.draw = draw]]
              ELSE /\ draws' = draws
                   /\ runs' = [runs EXCEPT ![r] = Done("manual", "storeFailed")]
  /\ UNCHANGED <<boloes, issued, subscribers, now, deleting, sent,
                 nextToken, confirming, fn>>

\* mutant: a tick that failed never returns
FinishOnlyOk(r) ==
  /\ runs[r].pc = "done"
  /\ runs[r].result \notin {"fetchFailed", "storeFailed"}
  /\ runs[r].failed = {}
  /\ runs' = [runs EXCEPT ![r] = IdleRun]
  /\ UNCHANGED <<boloes, issued, draws, subscribers, now, deleting, sent,
                 nextToken, confirming, ops, fn>>

\* the handler has returned: the slot is free again
Finish(r) ==
  /\ runs[r].pc = "done"
  /\ runs' = [runs EXCEPT ![r] = IdleRun]
  /\ UNCHANGED <<boloes, issued, draws, subscribers, now, deleting, sent,
                 nextToken, confirming, ops, fn>>

\* the outcomes of fetchLatestDrawSummary and of the date test in POST /bolao
Summaries ==
  {[ok |-> FALSE, latestNumber |-> 0, nextPassed |-> FALSE]} \cup
  [ok : {TRUE}, latestNumber : 1..MaxDraw, nextPassed : BOOLEAN]

\* crypto.randomBytes(5): an id never returned before
generateBolaoId == PoolSeq[Cardinality(issued) + 1]

\* POST /bolao
CreateBolao ==
  \E n \in 0..MaxDraw, summary \in Summaries :
    /\ issued # PoolIds
    /\ Serve
    /\ parseDrawNumber(n)
    /\ summary.ok => /\ n > summary.latestNumber
                     /\ ~(n = summary.latestNumber + 1 /\ summary.nextPassed)
    /\ LET id == generateBolaoId
       IN  /\ boloes' = [p \in DOMAIN boloes \cup {id} |->
                           IF p = id THEN [draw_number |-> n] ELSE boloes[p]]
           /\ issued' = issued \cup {id}
    /\ UNCHANGED <<draws, subscribers, now, runs, deleting, sent,
                   nextToken, confirming, fn>>

\* POST /admin/boloes/:id/update
AdminUpdateBolao ==
  \E p \in DOMAIN boloes, n \in 0..MaxDraw :
    /\ Serve
    /\ parseDrawNumber(n)
    /\ boloes' = [boloes EXCEPT ![p].draw_number = n]
    /\ UNCHANGED <<issued, draws, subscribers, now, runs, deleting, sent,
                   nextToken, confirming, fn>>

\* POST /admin/boloes/:id/delete: DELETE FROM games, DELETE FROM boloes
AdminDeleteBolao ==
  \E p \in DOMAIN boloes :
    /\ Serve
    /\ boloes' = [q \in DOMAIN boloes \ {p} |-> boloes[q]]
    /\ UNCHANGED <<issued, draws, subscribers, now, runs, deleting, sent,
                   nextToken, confirming, fn>>

\* String(req.body.email).trim().toLowerCase() of the addresses of RawEmails
normalizeEmail(raw) ==
  CASE raw = "A@x " -> "a@x"
    [] raw = " b@X" -> "b@x"
    [] OTHER -> raw

\* mutant: verified_at missing from DO UPDATE SET
subscribeRowStale(token) ==
  [status |-> "pending", verification_token |-> token, verified_at |-> IsoOf(0),
   last_notified_draw |-> NULL]

\* the row INSERT .. VALUES (?, ?, 'pending', ?, ?) adds and, ON CONFLICT,
\* the columns DO UPDATE SET gives the row that exists
subscribeRow(token) ==
  [status |-> "pending", verification_token |-> token, verified_at |-> NoDate,
   last_notified_draw |-> NULL]

\* POST /b/:id/subscribe: INSERT .. ON CONFLICT(bolao_id, email) DO UPDATE
SubscribeRequest(p, raw) ==
  LET e == normalizeEmail(raw)
  IN  /\ p \in DOMAIN boloes
      /\ Serve
      /\ nextToken <= MaxTokens
      /\ subscribers' = [s \in DOMAIN subscribers \cup {<<p, e>>} |->
                           IF s = <<p, e>> THEN subscribeRow(nextToken)
                           ELSE subscribers[s]]
      /\ nextToken' = nextToken + 1
      /\ sent' = [sent EXCEPT ![<<p, e>>] = [n \in DrawNums |-> 0]]
      /\ UNCHANGED <<boloes, issued, draws, now, runs, deleting, confirming, fn>>

Subscribe == \E p \in PoolIds, raw \in RawEmails : SubscribeRequest(p, raw)

\* SELECT id FROM bolao_subscribers WHERE bolao_id = ? AND verification_token = ?
selectByToken(p, token) ==
  {s \in DOMAIN subscribers :
     s[1] = p /\ subscribers[s].verification_token = token}

\* GET /b/:id/confirm: the lookup; without a row the answer is confirm=invalid
ConfirmRequest(p, token) ==
  /\ confirming.pc # "update"
  /\ Serve
  /\ IF selectByToken(p, token) = {}
     THEN confirming' = [pc |-> "done", bolao |-> p, id |-> NoSub,
                         token |-> token, answer |-> "invalid"]
     ELSE \E s \in selectByToken(p, token) :
            confirming' = [pc |-> "update", bolao |-> p, id |-> s,
                           token |-> token, answer |-> "none"]
  /\ UNCHANGED <<boloes, issued, draws, subscribers, now, runs, deleting,
                 sent, nextToken, fn>>

ConfirmLookup == \E p \in PoolIds, token \in 1..MaxTokens : ConfirmRequest(p, token)

\* mutant: verification_token = NULL missing from the UPDATE
ConfirmUpdateKeepToken ==
  /\ confirming.pc = "update"
  /\ subscribers' = [s \in DOMAIN subscribers |->
                       IF s = confirming.id
                       THEN [subscribers[s] EXCEPT
                               !.status = "verified",
                               !.verified_at = IsoOf(now)]
                       ELSE subscribers[s]]
  /\ confirming' = [confirming EXCEPT !.pc = "done", !.answer = "ok"]
  /\ UNCHANGED <<boloes, issued, draws, now, runs, deleting, sent,
                 nextToken, ops, fn>>

\* GET /b/:id/confirm: UPDATE .. SET status = 'verified' .. WHERE id = ?
ConfirmUpdate ==
  /\ confirming.pc = "update"
  /\ subscribers' = [s \in DOMAIN subscribers |->
                       IF s = confirming.id
                       THEN [subscribers[s] EXCEPT
                               !.status = "verified",
                               !.verification_token = NULL,
                               !.verified_at = IsoOf(now)]
                       ELSE subscribers[s]]
  /\ confirming' = [confirming EXCEPT !.pc = "done", !.answer = "ok"]
  /\ UNCHANGED <<boloes, issued, draws, now, runs, deleting, sent,
                 nextToken, ops, fn>>

\* mutant: the UPDATE also sets status = 'pending'
AdminDeleteDrawResetStatus ==
  \E n \in 0..MaxDraw :
    /\ deleting = NULL
    /\ Serve
    /\ parseDrawNumber(n)
    /\ subscribers' = [s \in DOMAIN subscribers |->
                         IF subscribers[s].last_notified_draw = n
                         THEN [subscribers[s] EXCEPT !.last_notified_draw = NULL,
                                                     !.status = "pending"]
                         ELSE subscribers[s]]
    /\ deleting' = n
    /\ UNCHANGED <<boloes, issued, draws, now, runs, sent, nextToken,
                   confirming, fn>>

\* POST /admin/draws/:number/delete: UPDATE bolao_subscribers ..
AdminDeleteDrawReset ==
  \E n \in 0..MaxDraw :
    /\ deleting = NULL
    /\ Serve
    /\ parseDrawNumber(n)
    /\ subscribers' = [s \in DOMAIN subscribers |->
                         IF subscribers[s].last_notified_draw = n
                         THEN [subscribers[s] EXCEPT !.last_notified_draw = NULL]
                         ELSE subscribers[s]]
    /\ deleting' = n
    /\ UNCHANGED <<boloes, issued, draws, now, runs, sent, nextToken,
                   confirming, fn>>

\* mutant: the WHERE clause missing from the DELETE
AdminDeleteDrawDeleteAll ==
  /\ deleting # NULL
  /\ draws' = {}
  /\ sent' = [s \in SubIds |-> [sent[s] EXCEPT ![deleting] = 0]]
  /\ deleting' = NULL
  /\ UNCHANGED <<boloes, issued, subscribers, now, runs, nextToken,
                 confirming, ops, fn>>

\* POST /admin/draws/:number/delete: DELETE FROM draws WHERE number = ?
AdminDeleteDrawDelete ==
  /\ deleting # NULL
  /\ draws' = {x \in draws : x.number # deleting}
  /\ sent' = [s \in SubIds |-> [sent[s] EXCEPT ![deleting] = 0]]
  /\ deleting' = NULL
  /\ UNCHANGED <<boloes, issued, subscribers, now, runs, nextToken,
                 confirming, ops, fn>>

----------------------------------------------------------------------------
Next ==
  \/ \E r \in Slots : PollCheck(r)
  \/ \E r \in Slots : PollFetch(r)
  \/ \E r \in Slots : StoreDraw(r)
  \/ \E r \in Slots : NotifySelectBoloes(r)
  \/ \E r \in Slots : NotifySelectSubscribers(r)
  \/ \E r \in Slots : NotifySend(r)
  \/ \E r \in Slots : NotifyMark(r)
  \/ \E r \in Slots : ManualStart(r)
  \/ \E r \in Slots : Finish(r)
  \/ CreateBolao
  \/ AdminUpdateBolao
  \/ AdminDeleteBolao
  \/ Subscribe
  \/ ConfirmLookup
  \/ ConfirmUpdate
  \/ AdminDeleteDrawReset
  \/ AdminDeleteDrawDelete

Spec == Init /\ [][Next]_vars

----------------------------------------------------------------------------
(* Properties of the poller and of the notification                        *)

\* run r executes its subscribers query in this step
SelectStep(r) == runs[r].pc = "selSubs" /\ runs'[r] # runs[r]

\* run r executes its boloes query in this step
BoloesStep(r) == runs[r].pc = "selBoloes" /\ runs'[r] # runs[r]

\* the verified subscribers of pool b not yet notified for draw n
Eligible(b, n) ==
  {s \in DOMAIN subscribers :
     /\ s[1] = b
     /\ subscribers[s].status = "verified"
     /\ \/ subscribers[s].last_notified_draw = NULL
        \/ /\ subscribers[s].last_notified_draw # NULL
           /\ subscribers[s].last_notified_draw < n}

NoUnresolvedPool ==
  \A p \in DOMAIN boloes : \E x \in draws : x.number = boloes[p].draw_number

C2_EligibleRecipients ==
  [][/\ \A r \in Slots :
          BoloesStep(r) =>
            LET targets == {p \in DOMAIN boloes :
                              boloes[p].draw_number = runs[r].draw.number}
            IN  IF targets = {} THEN runs'[r].pc = "done"
                ELSE runs'[r].pc = "selSubs" /\ runs'[r].boloes = targets
     /\ \A r \in Slots :
          SelectStep(r) =>
            /\ runs'[r].bolao \in runs[r].boloes
            /\ {x.id : x \in runs'[r].subs} =
                 Eligible(runs'[r].bolao, runs[r].draw.number)
     /\ \A s \in SubIds, n \in DrawNums :
          sent'[s][n] > sent[s][n] =>
            \E r \in Slots : /\ runs[r].pc = "send"
                             /\ runs[r].draw.number = n
                             /\ s \in {x.id : x \in runs[r].subs}
                             /\ s[1] = runs[r].bolao]_vars

\* C2 witness: a notification is about to send to a verified subscriber of
\* a pool that also has a pending subscriber, who is not on the list.
C2_Witness ==
  \E r \in Slots, s \in DOMAIN subscribers, t \in DOMAIN subscribers :
    /\ runs[r].pc = "send"
    /\ s \in {x.id : x \in runs[r].subs}
    /\ t \notin {x.id : x \in runs[r].subs}
    /\ s[1] = runs[r].bolao /\ t[1] = runs[r].bolao
    /\ subscribers[s].status = "verified"
    /\ subscribers[t].status = "pending"

\* C3: a subscriber is sent the results email for a draw number at most once
\* between two subscriptions and while the draw stays stored.
C3_AtMostOnce == \A s \in SubIds, n \in DrawNums : sent[s][n] <= 1

\* C4: a poll tick that starts when every pool's target draw is stored (or
\* there is no pool) returns at once: no fetch is started, and draws,
\* subscribers and sent emails are as before, also when the tick has returned.
C4_NoPendingNoFetch ==
  [][\A r \in Slots :
       /\ ( /\ NoUnresolvedPool
            /\ runs[r].pc = "idle"
            /\ runs'[r].kind = "poll" ) =>
              /\ runs'[r] = Done("poll", "skipped")
              /\ UNCHANGED <<boloes, draws, subscribers, sent>>
       /\ ( /\ runs[r].result = "skipped"
            /\ runs'[r] # runs[r] ) =>
              /\ runs'[r] = IdleRun
              /\ UNCHANGED <<boloes, draws, subscribers, sent>>]_vars

\* C4 witness: a tick has returned at once although a pool exists, because
\* the pool's draw is stored.
C4_Witness ==
  \E r \in Slots :
    /\ runs[r] = Done("poll", "skipped")
    /\ boloes # <<>>
    /\ NoUnresolvedPool

\* a draw as the data model describes it: six two-character dezenas in
\* ascending order and a draw date
WellFormedDraw(d) ==
  /\ Len(d.numbers) = 6
  /\ \A i \in 1..Len(d.numbers) : Len(d.numbers[i]) = 2
  /\ \A i \in 1..(Len(d.numbers) - 1) : StrLess(d.numbers[i], d.numbers[i + 1])
  /\ d.drawDate # NoDate

\* C10: a poll tick whose fetch failed, or returned a response with missing
\* or malformed fields, stores nothing and notifies nobody: a tick that is
\* past its store holds a well-formed draw.
C10_FetchFailureNoChange ==
  \A r \in Slots :
    (runs[r].kind = "poll" /\ runs[r].pc \in {"selBoloes", "selSubs", "send", "mark"})
      => WellFormedDraw(runs[r].draw)

\* run r executes the storeDraw of a poll tick in this step
StoreStep(r) == runs[r].pc = "store" /\ runs'[r] # runs[r]

\* C11: the store of a poll tick either writes the fetched draw and goes on
\* to the notification, or fails, and then the tick returns: the failing
\* step and the return change no draw, no subscriber and send no email, and
\* the tick never reaches a query or a send of the notification.
C11_StoreFailureSkipsNotification ==
  [][\A r \in Slots :
       /\ StoreStep(r) =>
            \/ /\ runs'[r].pc = "selBoloes"
               /\ draws' = storeDraw(draws, runs[r].draw, now)
               /\ ~storeDrawRejected(runs[r].draw)
            \/ /\ runs'[r].pc = "done"
               /\ runs'[r].result = "storeFailed"
               /\ UNCHANGED <<draws, subscribers, sent>>
       /\ ( /\ runs[r].result = "storeFailed"
            /\ runs'[r] # runs[r] ) =>
              /\ runs'[r] = IdleRun
              /\ UNCHANGED <<draws, subscribers, sent>>]_vars

\* C11 witness: the store of a tick has failed for a draw that a pool with a
\* verified, not yet notified subscriber targets; nothing was sent.
C11_Witness ==
  \E r \in Slots, s \in DOMAIN subscribers :
    /\ runs[r].pc = "done"
    /\ runs[r].result = "storeFailed"
    /\ s[1] \in DOMAIN boloes
    /\ boloes[s[1]].draw_number = runs[r].draw.number
    /\ subscribers[s].status = "verified"
    /\ subscribers[s].last_notified_draw = NULL
    /\ sent[s][runs[r].draw.number] = 0

\* C16: every row of the draws table holds exactly six numbers, each a
\* string of two characters, in ascending order.
C16_StoredDrawSixNumbers ==
  \A x \in draws :
    LET numbers == JSONparse(x.numbers)
    IN  /\ Len(numbers) = 6
        /\ \A i \in 1..Len(numbers) : Len(numbers[i]) = 2
        /\ \A i \in 1..(Len(numbers) - 1) : StrLess(numbers[i], numbers[i + 1])

\* pool p has a target number and the draw of that number is stored
Resolved(p) ==
  p \in DOMAIN boloes /\ boloes[p].draw_number \in StoredNumbers

\* pool p keeps its target number in this step
SameTarget(p) ==
  /\ p \in DOMAIN boloes
  /\ p \in DOMAIN boloes'
  /\ boloes'[p].draw_number = boloes[p].draw_number

\* C21 as stated: no step removes a stored draw, and a resolved pool that
\* keeps its target number stays resolved.
C21_ResolvedForever ==
  [][/\ StoredNumbers \subseteq StoredNumbers'
     /\ \A p \in PoolIds : (Resolved(p) /\ SameTarget(p)) => Resolved(p)']_vars

\* C21 amended: the draws table is changed only by the upsert of a poll tick
\* or of a manual entry and by the DELETE of an admin draw deletion, which
\* removes the draw of the requested number and no other; a resolved pool
\* that keeps its target number goes back to unresolved only by that DELETE
\* of its target draw.
C21_ResolvedUntilDrawDeleted ==
  [][/\ draws' # draws =>
          \/ /\ deleting # NULL
             /\ deleting' = NULL
             /\ draws' = {x \in draws : x.number # deleting}
          \/ \E r \in Slots :
               /\ runs[r].pc = "store"
               /\ runs'[r].pc = "selBoloes"
               /\ draws' = storeDraw(draws, runs[r].draw, now)
          \/ \E r \in Slots :
               /\ runs[r].pc = "idle"
               /\ runs'[r].kind = "manual"
               /\ draws' = storeDraw(draws, runs'[r].draw, now)
     /\ \A p \in PoolIds :
          (Resolved(p) /\ SameTarget(p) /\ ~Resolved(p)') =>
            /\ deleting = boloes[p].draw_number
            /\ deleting' = NULL
            /\ StoredNumbers' = StoredNumbers \ {deleting}]_vars

\* C21 witness: a notification found pool p among the pools of its draw,
\* which was stored then; the draw has been deleted since while another
\* draw is still stored, and p, still targeting it, is unresolved again.
C21_Witness ==
  \E r \in Slots, p \in DOMAIN boloes :
    /\ runs[r].pc \in {"selSubs", "send", "mark"}
    /\ p \in runs[r].boloes \cup {runs[r].bolao}
    /\ boloes[p].draw_number = runs[r].draw.number
    /\ ~Resolved(p)
    /\ deleting = NULL
    /\ draws # {}

\* the poll ticks that have started and not yet returned
TicksInProgress ==
  {r \in Slots : runs[r].kind = "poll" /\ runs[r].pc \notin {"idle", "done"}}

\* C25: at most one poll tick is executing at any time.
C25_OneTickAtATime == Cardinality(TicksInProgress) <= 1

----------------------------------------------------------------------------
(* Properties of the subscriptions                                         *)

\* the status of subscriber s before and after the step
StatusStep(s, from, to) ==
  /\ s \in DOMAIN subscribers
  /\ subscribers[s].status = from
  /\ s \in DOMAIN subscribers'
  /\ subscribers'[s].status = to

\* C17 as stated: no step takes a subscriber from verified to pending.
C17_StatusMonotonic ==
  [][\A s \in SubIds : ~StatusStep(s, "verified", "pending")]_vars

\* C17 amended: a subscriber goes from pending to verified only by the
\* UPDATE of a confirm request for that subscriber, and from verified back
\* to pending only by a new subscribe request for the same pool and email,
\* which gives the row a fresh token; no other step changes a status, and a
\* row is never removed.
C17_StatusResetOnlyBySubscribe ==
  [][\A s \in SubIds :
       /\ StatusStep(s, "pending", "verified") =>
            /\ confirming.pc = "update"
            /\ confirming.id = s
            /\ confirming'.answer = "ok"
       /\ StatusStep(s, "verified", "pending") =>
            /\ nextToken' = nextToken + 1
            /\ subscribers'[s] = subscribeRow(nextToken)
            /\ \A t \in DOMAIN subscribers \ {s} : subscribers'[t] = subscribers[t]
       /\ s \in DOMAIN subscribers => s \in DOMAIN subscribers']_vars

\* C17 witness: the last confirm request verified a subscriber, who has
\* subscribed again since and is pending.
C17_Witness ==
  /\ confirming.pc = "done"
  /\ confirming.answer = "ok"
  /\ confirming.id \in DOMAIN subscribers
  /\ subscribers[confirming.id].status = "pending"

\* the verification tokens held by the rows of a subscribers table
TokensOf(table) == {table[s].verification_token : s \in DOMAIN table} \ {NULL}

\* C18: a subscribe request for pool p with an email that normalises to e
\* leaves exactly one row for (p, e): it adds the row when there was none
\* and overwrites it otherwise; the row is pending, holds a token no row
\* held before, and has verified_at and last_notified_draw cleared; the
\* other rows are as before.
C18_ResubscribeResets ==
  [][\A p \in PoolIds, raw \in RawEmails :
       SubscribeRequest(p, raw) =>
         LET k == <<p, normalizeEmail(raw)>>
         IN  /\ DOMAIN subscribers' = DOMAIN subscribers \cup {k}
             /\ Cardinality(DOMAIN subscribers') =
                  IF k \in DOMAIN subscribers THEN Cardinality(DOMAIN subscribers)
                  ELSE Cardinality(DOMAIN subscribers) + 1
             /\ normalizeEmail(raw) \in Emails
             /\ subscribers'[k].status = "pending"
             /\ subscribers'[k].verification_token # NULL
             /\ subscribers'[k].verification_token \notin TokensOf(subscribers)
             /\ subscribers'[k].verified_at = NoDate
             /\ subscribers'[k].last_notified_draw = NULL
             /\ \A t \in DOMAIN subscribers \ {k} : subscribers'[t] = subscribers[t]]_vars

\* C18 witness: a subscriber who was verified and notified of a draw by a
\* notification that has ended has subscribed again: the row is pending with
\* the newest token, verified_at and last_notified_draw cleared.
C18_Witness ==
  \E r \in Slots :
    /\ runs[r].pc = "done"
    /\ runs[r].sub \in DOMAIN subscribers
    /\ subscribers[runs[r].sub] = subscribeRow(nextToken - 1)
    /\ nextToken > 2

\* C19: the UPDATE of a confirm request leaves its subscriber verified with
\* no token, and no row holds the token of the request; a confirm request
\* whose token no row of the pool holds is answered invalid and changes no
\* subscriber; so a request that repeats the pool and token of the confirm
\* answered ok just before is answered invalid.
C19_TokenOneTime ==
  [][/\ (confirming.pc = "update" /\ confirming'.pc = "done") =>
          /\ confirming'.answer = "ok"
          /\ subscribers'[confirming.id].status = "verified"
          /\ subscribers'[confirming.id].verification_token = NULL
          /\ confirming.token \notin TokensOf(subscribers')
     /\ \A p \in PoolIds, token \in 1..MaxTokens :
          ConfirmRequest(p, token) =>
            /\ selectByToken(p, token) = {} =>
                 /\ confirming'.answer = "invalid"
                 /\ confirming'.pc = "done"
                 /\ subscribers' = subscribers
            /\ ( /\ confirming.answer = "ok"
                 /\ confirming.bolao = p
                 /\ confirming.token = token ) =>
                   /\ confirming'.answer = "invalid"
                   /\ subscribers' = subscribers]_vars

\* C19 witness: one token was ever issued, its subscriber is verified, and
\* the last confirm request, for that pool and token, was answered invalid.
C19_Witness ==
  /\ nextToken = 2
  /\ confirming.pc = "done"
  /\ confirming.answer = "invalid"
  /\ confirming.token = 1
  /\ \E s \in DOMAIN subscribers :
       /\ s[1] = confirming.bolao
       /\ subscribers[s].status = "verified"
       /\ subscribers[s].verification_token = NULL

\* C27: a subscriber whose last_notified_draw is a number N has the draw of
\* number N stored.
C27_NotifiedDrawStored ==
  \A s \in DOMAIN subscribers :
    subscribers[s].last_notified_draw # NULL =>
      subscribers[s].last_notified_draw \in StoredNumbers

\* C23: every row of the bolao_subscribers table references a pool that
\* exists.
C23_SubscriberBelongsToPool ==
  \A s \in DOMAIN subscribers : s[1] \in DOMAIN boloes

\* C30: a subscriber goes from pending to verified only in the UPDATE of a
\* confirm request for the subscriber's pool whose token is the token the
\* subscriber holds at that moment.
C30_VerifiedByCurrentToken ==
  [][\A s \in SubIds :
       StatusStep(s, "pending", "verified") =>
         /\ confirming.pc = "update"
         /\ confirming.id = s
         /\ confirming.bolao = s[1]
         /\ confirming.token = subscribers[s].verification_token]_vars

----------------------------------------------------------------------------
(* The poller on its own: SpecPoll starts from a database of pools and     *)
(* verified subscribers and runs nothing but timer ticks, one at a time,   *)
(* against an API whose latest draw is ApiLatest.  The timer keeps firing, *)
(* every await returns, and fetch, store and mail succeed again and again. *)

ApiLatest == MaxDraw

\* the response of the API while its latest draw is ApiLatest
LatestResponse ==
  [kind |-> "json", numero |-> ApiLatest, hasLista |-> TRUE,
   listaDezenas |-> ApiGood, dataApuracao |-> ApiDate]

PollResponses == {[kind |-> "error"], LatestResponse}

verifiedRow ==
  [status |-> "verified", verification_token |-> NULL, verified_at |-> IsoOf(0),
   last_notified_draw |-> NULL]

InitPoll ==
  /\ \E targets \in [PoolIds -> DrawNums], S \in SUBSET SubIds :
       /\ boloes = [p \in PoolIds |-> [draw_number |-> targets[p]]]
       /\ subscribers = [x \in S |-> verifiedRow]
       /\ nextToken = Cardinality(S) + 1
  /\ issued = PoolIds
  /\ draws = {}
  /\ now = 0
  /\ runs = [r \in Slots |-> IdleRun]
  /\ deleting = NULL
  /\ sent = [s \in SubIds |-> [n \in DrawNums |-> 0]]
  /\ confirming = NoConfirm
  /\ ops = 0
  /\ fn = NoFn

\* setInterval(poll, POLL_INTERVAL_MS): the timer fires
TimerTick == PollTick(1) /\ UNCHANGED ops
TickFetch == \E resp \in PollResponses : Fetch(1, resp)
TickFetchOk == \E resp \in {x \in PollResponses : ~fetchThrows(x)} : Fetch(1, resp)
TickStore == \E dbOk \in BOOLEAN : Store(1, dbOk)
TickStoreOk == Store(1, TRUE)
TickSend == \E s \in runs[1].subs, mailOk \in BOOLEAN : Send(1, s, mailOk)
TickSendOk == \E s \in runs[1].subs : Send(1, s, TRUE)

NextPoll ==
  \/ TimerTick
  \/ TickFetch
  \/ TickStore
  \/ NotifySelectBoloes(1)
  \/ NotifySelectSubscribers(1)
  \/ TickSend
  \/ NotifyMark(1)
  \/ Finish(1)

\* One tick at a time: at most one of the steps is enabled, the one at the
\* position of the tick, so weak fairness of NextPoll says that the timer
\* keeps firing and that every await returns.  Strong fairness says that the
\* fetch, the store and the mail do not fail forever.
SpecPoll ==
  /\ InitPoll
  /\ [][NextPoll]_vars
  /\ WF_vars(NextPoll)
  /\ SF_vars(TickFetchOk)
  /\ SF_vars(TickStoreOk)
  /\ SF_vars(TickSendOk)

\* the subscriber ids on the list of recipients of a run
Recipients(run) == {x.id : x \in run.subs}

\* sendMail throws for subscriber s in this step of the tick
SendFails(s) ==
  /\ runs[1].pc = "send"
  /\ s \in Recipients(runs[1])
  /\ s \in runs'[1].failed \ runs[1].failed

\* C12: when sendMail throws for a subscriber, the step changes no
\* subscriber row and sends nothing, the rest of the list of recipients and
\* the pools still to visit stay as they are, and the loop goes on: every
\* recipient left on the list is later sent to (or fails in turn) and the
\* subscribers of every pool left are queried.
C12_SendFailureContinues ==
  /\ [][\A s \in SubIds :
          SendFails(s) =>
            /\ UNCHANGED <<subscribers, sent, draws>>
            /\ Recipients(runs'[1]) = Recipients(runs[1]) \ {s}
            /\ runs'[1].boloes = runs[1].boloes
            /\ runs'[1].pc = IF Recipients(runs'[1]) # {} THEN "send"
                             ELSE IF runs[1].boloes # {} THEN "selSubs"
                             ELSE "done"]_vars
  /\ \A t \in SubIds :
       (runs[1].failed # {} /\ t \in Recipients(runs[1]))
         ~> (sent[t][ApiLatest] >= 1 \/ t \in runs[1].failed)
  /\ \A p \in PoolIds :
       (runs[1].failed # {} /\ p \in runs[1].boloes) ~> (runs[1].bolao = p)

\* C12 witness: a send succeeded after the send to another subscriber of the
\* same pool had failed and after a send had failed in the pool before; the
\* subscribers that failed are still marked as never notified.
C12_Witness ==
  /\ runs[1].pc = "mark"
  /\ \E s \in runs[1].failed : s[1] = runs[1].sub[1]
  /\ \E s \in runs[1].failed : s[1] # runs[1].sub[1]
  /\ \A s \in runs[1].failed : subscribers[s].last_notified_draw = NULL
  /\ sent[runs[1].sub][runs[1].draw.number] = 1

\* C13: a verified subscriber whose results email for draw N failed in a
\* tick is later sent the results email for N.
C13_FailedSendRetried ==
  \A s \in SubIds, n \in DrawNums :
    (s \in runs[1].failed /\ runs[1].draw.number = n) ~> (sent[s][n] >= 1)

\* a tick has returned after a failure: of its fetch, of its store, or of a
\* send of its notification
FailedTick ==
  /\ runs[1].pc = "done"
  /\ \/ runs[1].result \in {"fetchFailed", "storeFailed"}
     \/ runs[1].failed # {}

\* C14: the timer fires again and again whatever happened in the ticks
\* before; after a tick that failed, a new tick runs, and a tick that starts
\* runs the pending check and goes on to fetch exactly when some pool's draw
\* is not stored.
C14_TicksIndependent ==
  /\ []<><<TimerTick>>_vars
  /\ FailedTick ~> (runs[1].pc = "fetch" \/ runs[1].result = "skipped")
  /\ [][(runs[1].pc = "idle" /\ runs'[1] # runs[1]) =>
          IF NoUnresolvedPool
          THEN runs'[1] = Done("poll", "skipped")
          ELSE runs'[1].kind = "poll" /\ runs'[1].pc = "fetch"]_vars

\* C14 witness: a tick is at its fetch although the draw of a pool is stored
\* and a verified subscriber of that pool was never sent its results: the
\* tick that stored the draw failed to send, and this is a later tick.
C14_Witness ==
  /\ runs[1].kind = "poll"
  /\ runs[1].pc = "fetch"
  /\ \E s \in DOMAIN subscribers :
       /\ boloes[s[1]].draw_number \in StoredNumbers
       /\ subscribers[s].last_notified_draw = NULL
       /\ sent[s][boloes[s[1]].draw_number] = 0

\* C20: while the API reports ApiLatest, ticks store no draw with a number
\* below ApiLatest, so a pool that targets such a number stays unresolved and
\* the pending check stays true.
C20_OlderDrawNeverPolled ==
  \A n \in DrawNums :
    n < ApiLatest =>
      /\ n \notin StoredNumbers
      /\ (\E p \in DOMAIN boloes : boloes[p].draw_number = n) => hasPendingBoloes

\* C20 witness: a tick has stored the latest draw and notified, and the pool
\* that targets an older number is still without its draw.
C20_Witness ==
  /\ runs[1].pc = "done"
  /\ runs[1].result = "notified"
  /\ ApiLatest \in StoredNumbers
  /\ \E p \in DOMAIN boloes :
       /\ boloes[p].draw_number < ApiLatest
       /\ boloes[p].draw_number \notin StoredNumbers

\* run r moves to position pc in this step
Reaches(r, pc) == runs[r].pc # pc /\ runs'[r].pc = pc

\* C26: a tick reaches its fetch only from its pending check, which found a
\* pool without its draw; its store only from its fetch, with the fetched
\* draw; its notification only from its store, which has written that draw
\* in the same step; the notification keeps the draw; and a results email
\* for draw N is sent only by a tick that holds N while N is stored.
C26_StepOrder ==
  [][/\ \A r \in Slots :
          /\ Reaches(r, "fetch") =>
               runs[r].pc = "idle" /\ hasPendingBoloes
          /\ Reaches(r, "store") =>
               /\ runs[r].pc = "fetch"
               /\ \E resp \in PollResponses :
                    ~fetchThrows(resp) /\ runs'[r].draw = fetchLatestDraw(resp)
          /\ Reaches(r, "selBoloes") =>
               /\ runs[r].pc = "store"
               /\ runs'[r].draw = runs[r].draw
               /\ draws' = storeDraw(draws, runs[r].draw, now)
          /\ runs'[r].pc \in {"selSubs", "send", "mark"} =>
               /\ runs[r].pc \in {"selBoloes", "selSubs", "send", "mark"}
               /\ runs'[r].draw = runs[r].draw
     /\ \A s \in SubIds, n \in DrawNums :
          sent'[s][n] > sent[s][n] =>
            /\ n \in StoredNumbers
            /\ \E r \in Slots : runs[r].pc = "send" /\ runs[r].draw.number = n]_vars

\* C26 witness: a tick that found a pool pending has fetched and stored the
\* draw and has just sent the first results email for it.
C26_Witness ==
  \E s \in DOMAIN subscribers :
    /\ runs[1].kind = "poll"
    /\ runs[1].pc = "mark"
    /\ runs[1].sub = s
    /\ runs[1].draw.number \in StoredNumbers
    /\ sent[s][runs[1].draw.number] = 1
    /\ subscribers[s].last_notified_draw = NULL

----------------------------------------------------------------------------
(* A pool with a verified subscriber: SpecRetarget starts from the state   *)
(* after POST /bolao for draw 1, a subscribe request and its confirmation, *)
(* and serves MaxLater more requests and timer ticks                       *)

MaxLater == 3

InitRetarget ==
  /\ boloes = [p \in {"p1"} |-> [draw_number |-> 1]]
  /\ issued = {"p1"}
  /\ draws = {}
  /\ subscribers = [x \in {<<"p1", "a@x">>} |-> verifiedRow]
  /\ now = 0
  /\ runs = [r \in Slots |-> IdleRun]
  /\ deleting = NULL
  /\ sent = [s \in SubIds |-> [n \in DrawNums |-> 0]]
  /\ nextToken = 2
  /\ confirming = [pc |-> "done", bolao |-> "p1", id |-> <<"p1", "a@x">>,
                   token |-> 1, answer |-> "ok"]
  /\ ops = MaxOps - MaxLater
  /\ fn = NoFn

SpecRetarget == InitRetarget /\ [][Next]_vars

\* C28: no step takes the last_notified_draw of a subscriber from a number
\* to a smaller number: a step changes it to N only from NULL or from a
\* number less than N.
C28_LastNotifiedNeverDecreases ==
  [][\A s \in DOMAIN subscribers :
       (s \in DOMAIN subscribers' /\ subscribers'[s].last_notified_draw # NULL) =>
         \/ subscribers[s].last_notified_draw = NULL
         \/ subscribers[s].last_notified_draw <= subscribers'[s].last_notified_draw]_vars

----------------------------------------------------------------------------
(* storeDraw on its own: SpecStore calls it with arbitrary draws while the *)
(* clock advances                                                          *)

NumsA == SortStrings([i \in 1..Len(ApiGood) |-> PadStart2(ApiGood[i])])
NumsB == parseResultNumbers(<<1, 2, 3, 4, 5, 60, 60>>)

StoreInputs ==
  [number : DrawNums, numbers : {NumsA, NumsB}, drawDate : {ApiDate, DateOf(0)}]

NoRow ==
  [number |-> 0, numbers |-> JSONstringify(<<>>), draw_date |-> NoDate,
   updated_at |-> IsoOf(0)]

\* the row of draw number n, or NoRow
RowOf(table, n) ==
  IF \E x \in table : x.number = n
  THEN CHOOSE x \in table : x.number = n
  ELSE NoRow

InitStore ==
  /\ boloes = <<>>
  /\ issued = {}
  /\ draws = {}
  /\ subscribers = <<>>
  /\ now = 0
  /\ runs = [r \in Slots |-> IdleRun]
  /\ deleting = NULL
  /\ sent = [s \in SubIds |-> [n \in DrawNums |-> 0]]
  /\ nextToken = 1
  /\ confirming = NoConfirm
  /\ ops = 0
  /\ fn = [pc |-> "store", last |-> NoDrawLocal, before |-> NoRow,
           repeat |-> FALSE]

\* storeDraw(d) is called; fn remembers the call, the row it found and
\* whether the call before had the same input
StoreCall(d) ==
  /\ fn.pc = "store"
  /\ draws' = storeDraw(draws, d, now)
  /\ fn' = [pc |-> "store", last |-> d, before |-> RowOf(draws, d.number),
            repeat |-> (fn.last = d)]
  /\ UNCHANGED <<boloes, issued, subscribers, now, runs, deleting, sent,
                 nextToken, confirming, ops>>

FnStoreDraw == \E d \in StoreInputs : StoreCall(d)

\* time passes
Tick ==
  /\ now < MaxClock
  /\ now' = now + 1
  /\ UNCHANGED <<boloes, issued, draws, subscribers, runs, deleting, sent,
                 nextToken, confirming, ops, fn>>

NextStore == FnStoreDraw \/ Tick

SpecStore == InitStore /\ [][NextStore]_vars

\* what a draws table holds apart from the update timestamps
Content(table) ==
  {[number |-> x.number, numbers |-> x.numbers, draw_date |-> x.draw_date] :
     x \in table}

\* C5 as stated: a second storeDraw call with the input of the call before
\* leaves the draws table identical.
C5_UpsertIdempotent ==
  [][\A d \in StoreInputs : (StoreCall(d) /\ fn.last = d) => draws' = draws]_vars

\* C5 amended: a second storeDraw call with the input of the call before
\* leaves number, numbers and draw_date of every stored draw identical, and
\* changes nothing but updated_at of that draw, which becomes the time of the
\* second call.
C5_UpsertIdempotentContent ==
  [][\A d \in StoreInputs :
       (StoreCall(d) /\ fn.last = d) =>
         /\ Content(draws') = Content(draws)
         /\ {x \in draws' : x.number # d.number} = {x \in draws : x.number # d.number}
         /\ \A x \in draws' : x.number = d.number => x.updated_at = IsoOf(now)]_vars

\* C5 witness: the same draw was stored twice in a row, and the second call
\* found the row of the first with an older timestamp.
C5_Witness ==
  /\ fn.pc = "store"
  /\ fn.repeat
  /\ fn.before.number = fn.last.number
  /\ fn.before.numbers = JSONstringify(fn.last.numbers)
  /\ fn.before.draw_date = fn.last.drawDate
  /\ fn.before.updated_at # IsoOf(now)
  /\ \E x \in draws : x.number = fn.last.number /\ x.updated_at = IsoOf(now)

\* C6: the draws table never holds two rows with one number; storeDraw for
\* an absent number adds a row with the given numbers and date, storeDraw
\* for a present number replaces numbers and date of that row, and in both
\* cases the rows of the other numbers are as before.
C6_KeyedUpsert ==
  [][\A d \in StoreInputs :
       StoreCall(d) =>
         /\ \A x, y \in draws' : x.number = y.number => x = y
         /\ \E x \in draws' : /\ x.number = d.number
                              /\ x.numbers = JSONstringify(d.numbers)
                              /\ x.draw_date = d.drawDate
         /\ {x \in draws' : x.number # d.number} = {x \in draws : x.number # d.number}
         /\ Cardinality(draws') =
              IF d.number \in StoredNumbers THEN Cardinality(draws)
              ELSE Cardinality(draws) + 1]_vars

\* C6 witness: a stored draw was overwritten with other numbers and another
\* date while the draw of another number is stored.
C6_Witness ==
  /\ fn.pc = "store"
  /\ fn.before.number = fn.last.number
  /\ fn.before.numbers # JSONstringify(fn.last.numbers)
  /\ fn.before.draw_date # fn.last.drawDate
  /\ Cardinality(draws) = 2
  /\ \E x \in draws : /\ x.number = fn.last.number
                      /\ x.numbers = JSONstringify(fn.last.numbers)
                      /\ x.draw_date = fn.last.drawDate

----------------------------------------------------------------------------
(* The hit matcher on its own: SpecHits feeds it games and draws in any    *)
(* order of their numbers                                                  *)

MaxDezena == 7
MaxFnGames == 2

Dezena(n) == PadStart2(Str(n))

\* the numbers of a set as a sequence in ascending order
RECURSIVE SeqOfSet(_)
SeqOfSet(S) ==
  IF S = {} THEN <<>>
  ELSE LET m == CHOOSE x \in S : \A y \in S : x <= y
       IN  <<m>> \o SeqOfSet(S \ {m})

Reverse(s) == [i \in 1..Len(s) |-> s[Len(s) + 1 - i]]
Rotate(s) == IF s = <<>> THEN s ELSE Tail(s) \o <<Head(s)>>

\* a list of dezenas in ascending order, reversed, and rotated by one
Orders(S) ==
  LET asc == [i \in 1..Cardinality(S) |-> Dezena(SeqOfSet(S)[i])]
  IN  {asc, Reverse(asc), Rotate(asc)}

\* games: 6 to 15 numbers out of 1..MaxDezena
FnGameNumbers ==
  UNION {Orders(S) : S \in {T \in SUBSET (1..MaxDezena) :
                              Cardinality(T) >= 6 /\ Cardinality(T) <= 15}}

\* draws: six consecutive numbers, from 1..6 up to a draw that misses 1..MaxDezena
FnDrawNumbers == UNION {Orders(k..(k + 5)) : k \in 1..(MaxDezena + 1)}

FnGameLists ==
  UNION {[1..n -> FnGameNumbers] : n \in 0..MaxFnGames}

\* the rows of the games table for a list of number lists
FnGames(list) ==
  [i \in 1..Len(list) |-> [id |-> i, numbers |-> JSONstringify(list[i])]]

NoFnDraw == [has |-> FALSE, numbers |-> <<>>]

InitHits ==
  /\ boloes = <<>>
  /\ issued = {}
  /\ draws = {}
  /\ subscribers = <<>>
  /\ now = 0
  /\ runs = [r \in Slots |-> IdleRun]
  /\ deleting = NULL
  /\ sent = [s \in SubIds |-> [n \in DrawNums |-> 0]]
  /\ nextToken = 1
  /\ confirming = NoConfirm
  /\ ops = 0
  /\ \E list \in FnGameLists,
        d \in {NoFnDraw} \cup {[has |-> TRUE, numbers |-> x] : x \in FnDrawNumbers} :
       fn = [pc |-> "hits", games |-> FnGames(list), draw |-> d,
             stats |-> <<>>, maxHits |-> 0, achievement |-> "null"]

notFn == <<boloes, issued, draws, subscribers, now, runs, deleting, sent,
           nextToken, confirming, ops>>

\* const drawNumbersSet = new Set(draw.numbers); getGameStats(games, ..)
FnGetGameStats ==
  /\ fn.pc = "hits"
  /\ fn' = [fn EXCEPT !.pc = "stats",
                      !.stats = getGameStats(fn.games,
                                  [has |-> fn.draw.has, set |-> Range(fn.draw.numbers)])]
  /\ UNCHANGED notFn

\* const maxHits = getMaxHits(gamesStats)
FnGetMaxHits ==
  /\ fn.pc = "stats"
  /\ fn' = [fn EXCEPT !.pc = "max", !.maxHits = getMaxHits(fn.stats)]
  /\ UNCHANGED notFn

\* const achievement = getHitAchievement(maxHits)
FnGetHitAchievement ==
  /\ fn.pc = "max"
  /\ fn' = [fn EXCEPT !.pc = "ach", !.achievement = getHitAchievement(fn.maxHits)]
  /\ UNCHANGED notFn

NextHits == FnGetGameStats \/ FnGetMaxHits \/ FnGetHitAchievement

SpecHits == InitHits /\ [][NextHits]_vars

\* the numbers game i and the draw have in common
Common(i) == Range(JSONparse(fn.games[i].numbers)) \cap Range(fn.draw.numbers)

\* C7: the hit count getGameStats gives a game is the number of elements of
\* the intersection of the game's numbers with the draw's numbers, whatever
\* the order of either list, and 0 when there is no draw.
C7_HitCountIsIntersection ==
  fn.pc \in {"stats", "max", "ach"} =>
    /\ Len(fn.stats) = Len(fn.games)
    /\ \A i \in 1..Len(fn.games) :
         /\ fn.stats[i].game = fn.games[i]
         /\ fn.stats[i].hitCount =
              IF fn.draw.has THEN Cardinality(Common(i)) ELSE 0

\* C7 witness: a game and a draw, neither in ascending order, with some but
\* not all numbers in common.
C7_Witness ==
  /\ fn.pc = "stats"
  /\ fn.draw.has
  /\ Len(fn.games) >= 1
  /\ fn.stats[1].hitCount \in 1..5
  /\ StrLess(fn.stats[1].numbers[2], fn.stats[1].numbers[1])
  /\ StrLess(fn.draw.numbers[6], fn.draw.numbers[5])

\* the greatest number of hits over the games, 0 without games or draw
BestHits ==
  IF fn.draw.has /\ Len(fn.games) > 0
  THEN CHOOSE m \in {Cardinality(Common(i)) : i \in 1..Len(fn.games)} :
         \A i \in 1..Len(fn.games) : Cardinality(Common(i)) <= m
  ELSE 0

\* C9: the achievement of a pool is "sena" when the greatest hit count of
\* its games is 6, "quina" when it is 5, "quadra" when it is 4, and none
\* otherwise, also for a pool without games.
C9_AchievementTier ==
  fn.pc = "ach" =>
    /\ fn.maxHits = BestHits
    /\ BestHits = 6 => fn.achievement = "sena"
    /\ BestHits = 5 => fn.achievement = "quina"
    /\ BestHits = 4 => fn.achievement = "quadra"
    /\ BestHits \notin {4, 5, 6} => fn.achievement = "null"

\* C9 witness: a pool of two games, the first with 5 hits and the second
\* with 4, is a quina.
C9_Witness ==
  /\ fn.pc = "ach"
  /\ Len(fn.games) = 2
  /\ fn.stats[1].hitCount = 5
  /\ fn.stats[2].hitCount = 4
  /\ fn.achievement = "quina"

----------------------------------------------------------------------------
(* The game routes on their own: SpecGames posts inputs of one or more     *)
(* lines to POST /b/:id/games and POST /admin/boloes/:id/games             *)

MaxLines == 2

\* the digits of the pieces of a line, as typed
T(n) == Str(n)
Padded(n) == <<0>> \o Str(n)

GameLines ==
  {<<T(1), T(2), T(3), T(4), T(5), T(6)>>,
   <<T(10), T(9), Padded(8), T(7), T(6), T(5), T(8), T(10)>>,
   <<T(60), T(1), T(33), T(2), T(44), T(3), T(55)>>,
   [i \in 1..15 |-> T(16 - i)],
   [i \in 1..16 |-> T(i)],
   <<T(1), T(2), T(3), T(4), T(5)>>,
   <<T(1), T(2), T(3), T(4), T(5), T(5)>>,
   <<T(0), T(1), T(2), T(3), T(4), T(5)>>,
   <<T(1), T(2), T(3), T(4), T(5), T(61)>>,
   <<>>}

GameInputs == UNION {[1..n -> GameLines] : n \in 0..MaxLines}

\* the games table before the request: empty, or one game of pool p1
GameTables ==
  {<<>>, insertGames(<<>>, "p1", <<parseLine(<<T(1), T(2), T(3), T(4), T(5), T(6)>>)>>)}

\* a request is about to be handled: its route, pool id and input
InitGames ==
  /\ boloes = [p \in {"p1"} |-> [draw_number |-> 1]]
  /\ issued = {"p1"}
  /\ draws = {}
  /\ subscribers = <<>>
  /\ now = 0
  /\ runs = [r \in Slots |-> IdleRun]
  /\ deleting = NULL
  /\ sent = [s \in SubIds |-> [n \in DrawNums |-> 0]]
  /\ nextToken = 1
  /\ confirming = NoConfirm
  /\ ops = 0
  /\ \E route \in {"owner", "admin"}, id \in PoolIds, input \in GameInputs,
        table \in GameTables :
       /\ route = "owner" => id \in DOMAIN boloes
       /\ fn = [pc |-> "post", route |-> route, id |-> id, input |-> input,
                before |-> table, games |-> table, answer |-> "none"]

\* the handler of a game route: parseGamesInput, then insertGames, whose
\* transaction commits (dbOk) or is rolled back
AddGames(route, dbOk) ==
  /\ fn.pc = "post"
  /\ fn.route = route
  /\ LET games == parseGamesInput(fn.input)
     IN  fn' = [fn EXCEPT
                  !.pc = "answered",
                  !.answer = IF games = ParseError THEN "rejected"
                             ELSE IF dbOk THEN "saved" ELSE "failed",
                  !.games = IF games # ParseError /\ dbOk
                            THEN insertGames(@, fn.id, games) ELSE @]
  /\ UNCHANGED notFn

\* POST /b/:id/games, past the lookup of the pool and isAuthorizedForBolao
OwnerAddGames == \E dbOk \in BOOLEAN : AddGames("owner", dbOk)

\* POST /admin/boloes/:id/games, past requireAdmin
AdminAddGames == \E dbOk \in BOOLEAN : AddGames("admin", dbOk)

NextGames == OwnerAddGames \/ AdminAddGames

SpecGames == InitGames /\ [][NextGames]_vars

\* the set of numbers a line names
LineSet(line) == {NumberOf(line[i]) : i \in 1..Len(line)}

\* a line names a game: 6 to 15 different numbers, all in 1..60
GoodLine(line) ==
  /\ Cardinality(LineSet(line)) >= 6
  /\ Cardinality(LineSet(line)) <= 15
  /\ LineSet(line) \subseteq 1..60

\* the game of a set of numbers: ascending, each padded to two characters
GameOf(S) == [i \in 1..Cardinality(S) |-> Dezena(SeqOfSet(S)[i])]

\* 6 to 15 strings of two digits, each in 01..60, strictly ascending
WellFormedGame(numbers) ==
  /\ Len(numbers) >= 6
  /\ Len(numbers) <= 15
  /\ \A i \in 1..Len(numbers) :
       /\ Len(numbers[i]) = 2
       /\ NumberOf(numbers[i]) \in 1..60
  /\ \A i \in 1..(Len(numbers) - 1) :
       /\ NumberOf(numbers[i]) < NumberOf(numbers[i + 1])
       /\ StrLess(numbers[i], numbers[i + 1])

\* C15: every row of the games table holds 6 to 15 two-character numbers in
\* 01..60, pairwise distinct and ascending; a request of either route whose
\* input has no line, or a line that does not name 6 to 15 different numbers
\* in 1..60, is rejected and stores nothing; any other request either fails
\* as a whole or appends, line by line, the numbers each line names.
C15_StoredGameWellFormed ==
  /\ \A i \in 1..Len(fn.games) : WellFormedGame(JSONparse(fn.games[i].numbers))
  /\ fn.pc = "answered" =>
       IF fn.input = <<>> \/ \E i \in 1..Len(fn.input) : ~GoodLine(fn.input[i])
       THEN fn.answer = "rejected" /\ fn.games = fn.before
       ELSE IF fn.answer # "saved" THEN fn.answer = "failed" /\ fn.games = fn.before
       ELSE /\ Len(fn.games) = Len(fn.before) + Len(fn.input)
            /\ SubSeq(fn.games, 1, Len(fn.before)) = fn.before
            /\ \A i \in 1..Len(fn.input) :
                 /\ fn.games[Len(fn.before) + i].bolao_id = fn.id
                 /\ JSONparse(fn.games[Len(fn.before) + i].numbers) =
                      GameOf(LineSet(fn.input[i]))

\* C15 witness: the admin route has stored, after the game that was there,
\* the game of a line typed out of order with a number repeated in two
\* spellings and a game of 15 numbers.
C15_Witness ==
  /\ fn.pc = "answered"
  /\ fn.route = "admin"
  /\ fn.answer = "saved"
  /\ Len(fn.before) = 1
  /\ Len(fn.games) = 3
  /\ JSONparse(fn.games[2].numbers) = GameOf(5..10)
  /\ JSONparse(fn.games[3].numbers) = GameOf(1..15)

\* C22: every row of the games table references a pool that exists.
C22_GameBelongsToPool ==
  \A i \in 1..Len(fn.games) : fn.games[i].bolao_id \in DOMAIN boloes

----------------------------------------------------------------------------
(* The owner routes on their own: SpecOwner sends one request to           *)
(* POST /b/:id/games or POST /b/:id/update, with the cookies and the token *)
(* query parameter an arbitrary client may choose                          *)

\* crypto.randomBytes(16).toString("hex") of POST /bolao, one per pool
EditTokenOf(p) == IF p = "p1" THEN "t1" ELSE "t2"

\* what a cookie or the query parameter may hold; "" is an absent or empty one
TokenValues == {"", "t1", "t2", "tx"}

\* the name field of the form: the trimmed text and its length
NameInputs ==
  {[text |-> "", length |-> 0], [text |-> "Amigos", length |-> 6],
   [text |-> "Muito longo", length |-> 81]}

\* the numbers field of the form: a game, and a line that is not a game
OwnerGameInputs ==
  {<<<<T(1), T(2), T(3), T(4), T(5), T(6)>>>>,
   <<<<T(1), T(2), T(3), T(4), T(5)>>>>}

\* parseBolaoName: { name }, or { error } above 80 characters
parseBolaoName(input) ==
  IF input.length = 0 THEN [error |-> FALSE, name |-> ""]
  ELSE IF input.length > 80 THEN [error |-> TRUE, name |-> ""]
  ELSE [error |-> FALSE, name |-> input.text]

\* mutant: the token of a cookie of any pool is accepted
isAuthorizedAnyCookie(req, id, bolao) ==
  \/ \E p \in PoolIds : req.cookies[p] # "" /\ req.cookies[p] = bolao.edit_token
  \/ (req.query # "" /\ req.query = bolao.edit_token)

\* isAuthorizedForBolao(req, bolao), id being bolao.id
isAuthorizedForBolao(req, id, bolao) ==
  \/ (req.cookies[id] # "" /\ req.cookies[id] = bolao.edit_token)
  \/ (req.query # "" /\ req.query = bolao.edit_token)

\* a request is about to be handled; pool p1 exists, pool p2 may
InitOwner ==
  /\ \E pools \in {{"p1"}, {"p1", "p2"}} :
       /\ boloes = [p \in pools |->
                      [draw_number |-> 1, name |-> "", edit_token |-> EditTokenOf(p)]]
       /\ issued = pools
  /\ draws = {}
  /\ subscribers = <<>>
  /\ now = 0
  /\ runs = [r \in Slots |-> IdleRun]
  /\ deleting = NULL
  /\ sent = [s \in SubIds |-> [n \in DrawNums |-> 0]]
  /\ nextToken = 1
  /\ confirming = NoConfirm
  /\ ops = 0
  /\ \E route \in {"games", "update"}, id \in PoolIds,
        cookies \in [PoolIds -> TokenValues], query \in TokenValues,
        input \in OwnerGameInputs, name \in NameInputs, table \in GameTables :
       /\ route = "games" => name.length = 0
       /\ route = "update" => input = <<<<T(1), T(2), T(3), T(4), T(5), T(6)>>>>
       /\ fn = [pc |-> "post", route |-> route, id |-> id,
                req |-> [cookies |-> cookies, query |-> query],
                input |-> input, name |-> name, pools |-> boloes,
                before |-> table, games |-> table, answer |-> 0]

\* the answer of both routes before the form is read: 404 without the pool,
\* 403 without its edit token, 0 to go on
OwnerGate ==
  IF fn.id \notin DOMAIN boloes THEN 404
  ELSE IF ~isAuthorizedForBolao(fn.req, fn.id, boloes[fn.id]) THEN 403
  ELSE 0

\* POST /b/:id/games
OwnerPostGames ==
  \E dbOk \in BOOLEAN :
    /\ fn.pc = "post"
    /\ fn.route = "games"
    /\ LET games == parseGamesInput(fn.input)
           answer == IF OwnerGate # 0 THEN OwnerGate
                     ELSE IF games = ParseError THEN 400
                     ELSE IF dbOk THEN 302 ELSE 500
       IN  fn' = [fn EXCEPT
                    !.pc = "answered",
                    !.answer = answer,
                    !.games = IF answer = 302 THEN insertGames(@, fn.id, games)
                              ELSE @]
    /\ UNCHANGED notFn

\* POST /b/:id/update
OwnerPostUpdate ==
  \E dbOk \in BOOLEAN :
    /\ fn.pc = "post"
    /\ fn.route = "update"
    /\ LET parsed == parseBolaoName(fn.name)
           answer == IF OwnerGate # 0 THEN OwnerGate
                     ELSE IF parsed.error THEN 400
                     ELSE IF dbOk THEN 302 ELSE 500
       IN  /\ fn' = [fn EXCEPT !.pc = "answered", !.answer = answer]
           /\ boloes' = IF answer = 302
                        THEN [boloes EXCEPT ![fn.id].name = parsed.name]
                        ELSE boloes
    /\ UNCHANGED <<issued, draws, subscribers, now, runs, deleting, sent,
                   nextToken, confirming, ops>>

NextOwner == OwnerPostGames \/ OwnerPostUpdate

SpecOwner == InitOwner /\ [][NextOwner]_vars

\* the request carries the edit token of the pool it names, in the cookie of
\* that pool or in the token query parameter
CarriesEditToken ==
  /\ fn.id \in DOMAIN fn.pools
  /\ fn.pools[fn.id].edit_token \in {fn.req.cookies[fn.id], fn.req.query}

\* C24: a request to POST /b/:id/games or POST /b/:id/update that does not
\* carry the edit token of pool id, in the cookie of that pool or in the
\* token query parameter, is answered 403 (404 when there is no such pool)
\* and leaves pools and games as they were; a request that carries it and a
\* valid form is answered with the redirect and has added its game to the
\* pool, or given the pool its name, unless the database failed.
C24_EditTokenRequired ==
  fn.pc = "answered" =>
    /\ ~CarriesEditToken =>
         /\ fn.answer = IF fn.id \in DOMAIN fn.pools THEN 403 ELSE 404
         /\ boloes = fn.pools
         /\ fn.games = fn.before
    /\ CarriesEditToken =>
         /\ fn.answer \in {302, 400, 500}
         /\ fn.answer # 302 => boloes = fn.pools /\ fn.games = fn.before
         /\ fn.answer = 400 <=>
              IF fn.route = "games" THEN \E i \in 1..Len(fn.input) : ~GoodLine(fn.input[i])
              ELSE fn.name.length > 80
         /\ (fn.answer = 302 /\ fn.route = "games") =>
              /\ boloes = fn.pools
              /\ fn.games = insertGames(fn.before, fn.id, parseGamesInput(fn.input))
         /\ (fn.answer = 302 /\ fn.route = "update") =>
              /\ fn.games = fn.before
              /\ boloes = [fn.pools EXCEPT ![fn.id].name = fn.name.text]

\* C24 witness: a request for pool p1 that carries the edit token of p1 in
\* the cookie of pool p2, and the edit token of p2 in the query, was
\* answered 403.
C24_Witness ==
  /\ fn.pc = "answered"
  /\ fn.id = "p1"
  /\ fn.req.cookies["p2"] = "t1"
  /\ fn.req.cookies["p1"] = ""
  /\ fn.req.query = "t2"
  /\ "p2" \in DOMAIN boloes
  /\ fn.answer = 403

----------------------------------------------------------------------------
(* insertGames on the shared connection: SpecTx handles MaxReqs requests   *)
(* to the game routes at the same time.  The process has one sqlite3       *)
(* Database, so BEGIN, INSERT, COMMIT and ROLLBACK of all requests run on  *)
(* one connection, in the order they were issued; a statement of a request *)
(* is issued by the callback of its previous one.                          *)

MaxReqs == 2
Reqs == 1..MaxReqs

\* the lines request k may post: two games no other request posts, and a
\* line that is not a game
TxLines(k) ==
  {<<T(k), T(11), T(21), T(22), T(23), T(24)>>,
   <<T(k), T(12), T(21), T(22), T(23), T(24)>>,
   <<T(k), T(2), T(3)>>}

TxInputs(k) == UNION {[1..n -> TxLines(k)] : n \in 1..MaxLines}

NoTable == <<>>

\* the requests are about to be handled; the connection is in autocommit
InitTx ==
  /\ boloes = [p \in {"p1"} |-> [draw_number |-> 1]]
  /\ issued = {"p1"}
  /\ draws = {}
  /\ subscribers = <<>>
  /\ now = 0
  /\ runs = [r \in Slots |-> IdleRun]
  /\ deleting = NULL
  /\ sent = [s \in SubIds |-> [n \in DrawNums |-> 0]]
  /\ nextToken = 1
  /\ confirming = NoConfirm
  /\ ops = 0
  /\ \E inputs \in [Reqs -> UNION {TxInputs(k) : k \in Reqs}] :
       /\ \A k \in Reqs : inputs[k] \in TxInputs(k)
       /\ fn = [pc |-> "tx",
                reqs |-> [k \in Reqs |->
                            [pc |-> "post", input |-> inputs[k], games |-> <<>>,
                             index |-> 0, answer |-> "none"]],
                games |-> NoTable, inTx |-> FALSE, snapshot |-> NoTable,
                crashed |-> FALSE]

\* the process is alive and request k is at position pc
AtTx(k, pc) == ~fn.crashed /\ fn.reqs[k].pc = pc

\* the handler up to insertGames: parseGamesInput, and the 400 answer
PostGames(k) ==
  /\ AtTx(k, "post")
  /\ LET games == parseGamesInput(fn.reqs[k].input)
     IN  fn' = IF games = ParseError
               THEN [fn EXCEPT !.reqs[k].pc = "done", !.reqs[k].answer = "rejected"]
               ELSE [fn EXCEPT !.reqs[k].pc = "begin", !.reqs[k].games = games]
  /\ UNCHANGED notFn

\* the row INSERT INTO games adds for game i of request k
GameRow(table, k, i) ==
  [id |-> Len(table) + 1, bolao_id |-> "p1",
   numbers |-> JSONstringify(fn.reqs[k].games[i])]

\* where insertNext goes after INSERT i: the next INSERT, COMMIT, or ROLLBACK
AfterInsert(req, dbOk) ==
  IF ~dbOk THEN [req EXCEPT !.pc = "rollback"]
  ELSE IF req.index + 1 >= Len(req.games)
       THEN [req EXCEPT !.pc = "commit", !.index = @ + 1]
       ELSE [req EXCEPT !.pc = "insert", !.index = @ + 1]

\* db.serialize: db.run("BEGIN TRANSACTION") and the first INSERT, issued
\* together.  BEGIN inside a transaction is an error, and this db.run has
\* no callback: the error is dropped (ignored), or its unhandled 'error'
\* event ends the process (~ignored), and then the open transaction is lost
BeginTransaction(k, ignored, dbOk) ==
  /\ AtTx(k, "begin")
  /\ IF fn.inTx /\ ~ignored
     THEN fn' = [fn EXCEPT !.crashed = TRUE, !.inTx = FALSE,
                           !.games = fn.snapshot, !.snapshot = NoTable]
     ELSE fn' = [fn EXCEPT
                   !.inTx = TRUE,
                   !.snapshot = IF fn.inTx THEN @ ELSE fn.games,
                   !.games = IF dbOk THEN Append(@, GameRow(@, k, 1)) ELSE @,
                   !.reqs[k] = AfterInsert(@, dbOk)]
  /\ UNCHANGED notFn

\* insertNext(index): the INSERT of the next game
InsertNext(k, dbOk) ==
  /\ AtTx(k, "insert")
  /\ fn' = [fn EXCEPT
              !.games = IF dbOk THEN Append(@, GameRow(@, k, fn.reqs[k].index + 1))
                        ELSE @,
              !.reqs[k] = AfterInsert(@, dbOk)]
  /\ UNCHANGED notFn

\* db.run("COMMIT", onComplete): without a transaction COMMIT is an error,
\* which onComplete reports
Commit(k) ==
  /\ AtTx(k, "commit")
  /\ fn' = [fn EXCEPT !.inTx = FALSE, !.snapshot = NoTable,
                      !.reqs[k].pc = "done",
                      !.reqs[k].answer = IF fn.inTx THEN "saved" ELSE "failed"]
  /\ UNCHANGED notFn

\* db.run("ROLLBACK", () => onComplete(err)): everything done on the
\* connection since BEGIN is undone; without a transaction nothing is
Rollback(k) ==
  /\ AtTx(k, "rollback")
  /\ fn' = [fn EXCEPT !.inTx = FALSE, !.snapshot = NoTable,
                      !.games = IF fn.inTx THEN fn.snapshot ELSE @,
                      !.reqs[k].pc = "done", !.reqs[k].answer = "failed"]
  /\ UNCHANGED notFn

NextTx ==
  \/ \E k \in Reqs : PostGames(k)
  \/ \E k \in Reqs, ignored \in BOOLEAN, dbOk \in BOOLEAN :
       BeginTransaction(k, ignored, dbOk)
  \/ \E k \in Reqs, dbOk \in BOOLEAN : InsertNext(k, dbOk)
  \/ \E k \in Reqs : Commit(k)
  \/ \E k \in Reqs : Rollback(k)

SpecTx == InitTx /\ [][NextTx]_vars

\* the numbers of the rows of the games table that hold a game of request k
StoredOf(k) ==
  LET own == {i \in 1..Len(fn.games) :
                NumberOf(JSONparse(fn.games[i].numbers)[1]) = k}
  IN  [j \in 1..Cardinality(own) |->
         JSONparse(fn.games[
           CHOOSE i \in own : Cardinality({h \in own : h < i}) = j - 1].numbers)]

----------------------------------------------------------------------------
(* sortGameStats on its own: SpecRank feeds it lists of game statistics    *)

MaxStats == 3
RankHits == {3, 4, 6}
RankSizes == {6, 8}

RankInputs ==
  UNION {{[i \in 1..n |-> [game |-> [id |-> ids[i]], hitCount |-> hs[i][1],
                           size |-> hs[i][2]]] :
            ids \in Permutations(1..n), hs \in [1..n -> RankHits \X RankSizes]} :
         n \in 0..MaxStats}

InitRank ==
  /\ boloes = <<>>
  /\ issued = {}
  /\ draws = {}
  /\ subscribers = <<>>
  /\ now = 0
  /\ runs = [r \in Slots |-> IdleRun]
  /\ deleting = NULL
  /\ sent = [s \in SubIds |-> [n \in DrawNums |-> 0]]
  /\ nextToken = 1
  /\ confirming = NoConfirm
  /\ ops = 0
  /\ \E stats \in RankInputs, hasDraw \in BOOLEAN :
       fn = [pc |-> "rank", stats |-> stats, hasDraw |-> hasDraw, sorted |-> <<>>]

\* const sortedGames = sortGameStats(gameStats, hasDraw)
FnSortGameStats ==
  /\ fn.pc = "rank"
  /\ fn' = [fn EXCEPT !.pc = "ranked",
                      !.sorted = sortGameStats(fn.stats, fn.hasDraw)]
  /\ UNCHANGED notFn

NextRank == FnSortGameStats

SpecRank == InitRank /\ [][NextRank]_vars

\* a goes before b: more hits (with a draw), else larger, else newer
GoesBefore(a, b, hasDraw) ==
  \/ hasDraw /\ a.hitCount > b.hitCount
  \/ /\ hasDraw => a.hitCount = b.hitCount
     /\ \/ a.size > b.size
        \/ a.size = b.size /\ a.game.id > b.game.id

\* C8: the result of sortGameStats holds the games of its input, each once,
\* ordered by hit count descending when there is a draw, then by size
\* descending, then by game id descending; without a draw the hit counts
\* play no part.
C8_SortOrder ==
  fn.pc = "ranked" =>
    /\ Len(fn.sorted) = Len(fn.stats)
    /\ \A i \in 1..Len(fn.stats) :
         \E j \in 1..Len(fn.sorted) : fn.sorted[j] = fn.stats[i]
    /\ \A i, j \in 1..Len(fn.sorted) :
         i < j => GoesBefore(fn.sorted[i], fn.sorted[j], fn.hasDraw)

\* C8 witness: with a draw, of two games with 4 hits the larger one, which
\* is the older and came later in the input, is placed first, behind a game
\* with 6 hits.
C8_Witness ==
  /\ fn.pc = "ranked"
  /\ fn.hasDraw
  /\ Len(fn.sorted) = 3
  /\ fn.stats[2].hitCount = 4 /\ fn.stats[2].size = 6
  /\ fn.stats[3].hitCount = 4 /\ fn.stats[3].size = 8
  /\ fn.stats[3].game.id < fn.stats[2].game.id
  /\ fn.sorted[1].hitCount = 6
  /\ fn.sorted[2] = fn.stats[3]
  /\ fn.sorted[3] = fn.stats[2]

====
